---- MODULE Spec2Model ----
(***************************************************************************)
(* Model of gim2png (sammiq/psp-dstools): the GIM container reader and     *)
(* chunk walker of gim2png/src/gim.rs and the pixel transcoder and palette *)
(* normalizer of gim2png/src/main.rs.                                      *)
(*                                                                         *)
(* Byte buffers are functions over 0..n-1 so that offsets read exactly as  *)
(* in the source.  Four specifications share the module:                   *)
(*   Spec     - process_image from the loaded picture to the PNG writer    *)
(*   SpecLoad - load_gim_image over a file buffer                          *)
(*   SpecPal  - convert_palette_for_png over a palette chunk               *)
(*   SpecMain - the loop of main over a list of input files                *)
(***************************************************************************)
EXTENDS Integers, Sequences, FiniteSets, TLC

\* ---------------------------------------------------------------- bounds
MaxWidth == 2
MaxHeight == 3
MaxAlign == 2
MaxTile == 2
MaxData == 4
MaxVisits == 3
MaxCount == 2
MaxBufWords == 16
MaxFiles == 2

\* ------------------------------------------------------ program constants
FMT_RGBA5551 == 1
FMT_RGBA8888 == 3
FMT_INDEX4 == 4
FMT_INDEX8 == 5
ORDER_Normal == 0
ORDER_PSPImage == 1
DefaultTileWidthDirect == 4
DefaultTileWidthIndexed == 16
DefaultTileHeight == 8
PaletteEntries == 256
GIM_FORMAT_SIGNATURE == 776423757
GIM_FORMAT_VERSION == 825110576
GIM_FORMAT_STYLE_PSP == 5264208
SCEGIM_FILE == 2
SCEGIM_PICTURE == 3
SCEGIM_IMAGE == 4
SCEGIM_PALETTE == 5
SizeOfGimHeader == 16
SizeOfGimChunk == 16
SizeOfGimImageHeader == 48

\* TryFrom<u16> for ImageFormat: the values that decode to a member
ImageFormatValues == (0..10) \cup {264, 265, 266}
\* TryFrom<u16> for ImageOrder
ImageOrderValues == {ORDER_Normal, ORDER_PSPImage}

\* ------------------------------------------------------------ byte buffers
BufLen(b) == Cardinality(DOMAIN b)
\* the bounds test of an indexing expression b[i]
InBuf(b, i) == i \in DOMAIN b
Zeros(n) == [i \in 0..(n - 1) |-> 0]
\* 16-bit palette entries at the edges of the RGBA5551 bit fields
EdgeEntries == <<0, 32768, 65535, 32767, 31, 992, 31744, 33825>>
EdgeSeed == 256
\* byte i of a payload made of the little-endian EdgeEntries, repeated
EdgeByte(i) ==
  LET e == EdgeEntries[((i \div 2) % Len(EdgeEntries)) + 1]
  IN IF i % 2 = 0 THEN e % 256 ELSE e \div 256
\* a payload of n bytes: all distinct in any window of 15 bytes, or the
\* edge entries when the seed is EdgeSeed
Payload(n, seed) ==
  [i \in 0..(n - 1) |-> IF seed = EdgeSeed THEN EdgeByte(i) ELSE (seed + 17 * i) % 256]

VARIABLES
  pc,          \* position in process_image / load_gim_image
  result,      \* [status, kind, offset, data_len] of the current run
  hdr,         \* picture.image_header fields
  args,        \* Args: tx, ty, linear
  data_len,    \* picture.image_data.len()
  data_seed,   \* selects the content of picture.image_data
  pal,         \* picture.palette_header / palette_data
  ih, iw,      \* aligned height and width
  tw, th,      \* tile size
  tiled,       \* order == PSPImage && !args.linear
  k,           \* number of loop iterations completed
  out,         \* the buffer declared at lines 190 / 267 / 345
  out_inner,   \* the buffer declared inside the else block at line 232
  file,        \* output file: "none", "created", "complete"
  encoded,     \* the buffer handed to writer.write_image_data
  unchecked,   \* payload offsets indexed without a preceding length test
  trace,       \* [src, dst] byte offsets of each completed loop iteration
  buf_len,     \* buffer.len() of the file buffer
  mem,         \* the 32-bit words of the buffer read so far, by word index
  start_offset,\* absolute offset of the parent chunk of the current walk
  chunk_end,   \* end of the parent chunk of the current walk
  child_offs,  \* absolute offset of the next child of the current walk
  found_chunk, \* gim_get_child_chunk: the last child of the wanted type
  picture,     \* the image and palette records captured by the visitor
  visited,     \* offsets of the child headers sliced in the current walk
  pal_out,     \* pal_data: the result of convert_palette_for_png
  files,       \* args.filenames: per file the length of its content, or NoFile
  file_no,     \* position of the loop of main in args.filenames, from 1
  log          \* per returned call of process_image: the file and the outcome

imageVars == <<hdr, args, data_len, data_seed, pal, ih, iw, tw, th,
               tiled, k, out, out_inner, file, encoded, unchecked, trace>>
loadVars == <<buf_len, mem, start_offset, chunk_end, child_offs, found_chunk,
              picture, visited>>
mainVars == <<files, file_no, log>>
vars == <<pc, result, imageVars, loadVars, pal_out, mainVars>>

image_data == Payload(data_len, data_seed)
palette_data == Payload(pal.len, pal.seed)

Running == [status |-> "running", kind |-> "", offset |-> 0, data_len |-> 0]
Ok == [status |-> "ok", kind |-> "", offset |-> 0, data_len |-> 0]
Err(kind) == [status |-> "err", kind |-> kind, offset |-> 0, data_len |-> 0]
Panic(kind) == [status |-> "panic", kind |-> kind, offset |-> 0, data_len |-> 0]
OutOfBounds(off, len) ==
  [status |-> "err", kind |-> "PixelDataOutOfBounds", offset |-> off, data_len |-> len]

\* ------------------------------------------------------- pure functions
\* usize::div_ceil
div_ceil(a, b) == IF a % b > 0 THEN (a \div b) + 1 ELSE a \div b

\* the aligned dimensions of lines 158-161
aligned(n, align) == div_ceil(n, align) * align

\* new_iw without the division by the 4 bytes of a pixel
new_iw_bytes(len, h) == len \div h

\* line 174: the width recomputed from the payload length
new_iw(len, h) == (len \div 4) \div h

\* expand5551 with the red and blue fields exchanged
expand5551_bgr(pix, c) ==
  CASE c = 0 -> (((pix \div 1024) % 32) * 8) % 256
    [] c = 1 -> (((pix \div 32) % 32) * 8) % 256
    [] c = 2 -> ((pix % 32) * 8) % 256
    [] OTHER -> IF (pix \div 32768) % 2 = 1 THEN 255 ELSE 0

\* lines 442-445: one RGBA5551 entry, component c of 0..3 (r, g, b, a)
expand5551(pix, c) ==
  CASE c = 0 -> ((pix % 32) * 8) % 256
    [] c = 1 -> (((pix \div 32) % 32) * 8) % 256
    [] c = 2 -> (((pix \div 1024) % 32) * 8) % 256
    [] OTHER -> IF (pix \div 32768) % 2 = 1 THEN 255 ELSE 0

\* convert_palette_for_png: the palette lookup table, or the failure
convert_palette_for_png(format, data) ==
  IF format \notin ImageFormatValues
  THEN [status |-> "err", kind |-> "PaletteFormatDecode", data |-> Zeros(0)]
  ELSE IF format = FMT_RGBA8888
  THEN [status |-> "ok", kind |-> "", data |-> data]
  ELSE IF format = FMT_RGBA5551
  THEN IF ~InBuf(data, 2 * (PaletteEntries - 1) + 1)
       THEN [status |-> "panic", kind |-> "index out of bounds", data |-> Zeros(0)]
       ELSE [status |-> "ok", kind |-> "",
             data |-> [j \in 0..(PaletteEntries * 4 - 1) |->
                        expand5551(data[2 * (j \div 4)] + 256 * data[2 * (j \div 4) + 1],
                                   j % 4)]]
  ELSE [status |-> "err", kind |-> "UnsupportedPaletteFormat", data |-> Zeros(0)]

pal_data == pal_out.data

\* tile_width with the direct-colour default for every format
tile_width_direct(tx, format) == IF tx > 0 THEN tx ELSE DefaultTileWidthDirect

\* tile sizes of lines 193-194, 270-271, 348-349
tile_width(tx, format) ==
  IF tx > 0 THEN tx
  ELSE IF format = FMT_RGBA8888 THEN DefaultTileWidthDirect ELSE DefaultTileWidthIndexed
tile_height(ty) == IF ty > 0 THEN ty ELSE DefaultTileHeight

tiles_x == iw \div tw
\* tiles_y counting a partial tile row as a row
tiles_y_ceil == div_ceil(ih, th)

tiles_y == ih \div th

\* The nested loops "for ty, for tx, for y, for x in 0..xs" of the tiled
\* paths, iteration number n (0-based) in execution order.
TileIter(n, xs) ==
  LET per == th * xs
      tile_index == n \div per
      rem == n % per
  IN [ty |-> tile_index \div tiles_x, tx |-> tile_index % tiles_x,
      y |-> rem \div xs, x |-> rem % xs, tile_index |-> tile_index]

\* lines 209 / 282 / 361: the payload pixel read in iteration it
tile_src(it) == it.tile_index * tw * th + it.y * tw + it.x

\* tile_dst with the within-tile coordinates transposed
tile_dst_transposed(it) == (it.ty * th + it.x) * iw + (it.tx * tw + it.y)

\* lines 212-214 / 285-287 / 364-366: the output pixel written in iteration it
tile_dst(it) == (it.ty * th + it.y) * iw + (it.tx * tw + it.x)

\* the loops "for y in 0..ih, for x in 0..xs" of the linear paths
LinearIter(n, xs) == [y |-> n \div xs, x |-> n % xs]

Put4(buf, dst, b0, b1, b2, b3) ==
  [buf EXCEPT ![dst] = b0, ![dst + 1] = b1, ![dst + 2] = b2, ![dst + 3] = b3]

\* ------------------------------------------------------------- inputs
\* A field of the file or of the command line is drawn at the step that
\* first reads it; until then it holds the parse_args default or zero.
Formats == {FMT_RGBA8888, FMT_INDEX8, FMT_INDEX4, FMT_RGBA5551, 11}
Orders == {ORDER_Normal, ORDER_PSPImage, 2}
Counts == {1, 2}
DataLens == {4 * n : n \in 0..MaxData} \cup {3, 4 * MaxData + 3}
DataSeeds == {186}
NoPalette == [present |-> FALSE, format |-> 0, len |-> 0, seed |-> 0]
Palettes ==
  {NoPalette} \cup
  [present : {TRUE}, format : {FMT_RGBA8888, FMT_RGBA5551, FMT_INDEX8},
   len : {16, 4 * PaletteEntries}, seed : {7}]
\* the palettes of an RGBA8888 picture, whose path never looks at them
DirectPalettes ==
  {NoPalette, [present |-> TRUE, format |-> FMT_INDEX8, len |-> 16, seed |-> 7]}
DefaultArgs == [tx |-> 0, ty |-> 0, linear |-> FALSE]
ZeroHeader ==
  [format |-> 0, order |-> 0, width |-> 0, height |-> 0, pitch_align |-> 0,
   height_align |-> 0, frame_count |-> 0, level_count |-> 0]

NoChunk == [found |-> FALSE, offset |-> 0]
NoRecord == [present |-> FALSE, header_offset |-> 0, offsets_offset |-> 0,
             offsets_count |-> 0, data_start |-> 0, data_end |-> 0]
NoPicture == [image |-> NoRecord, palette |-> NoRecord]
NoTable == [status |-> "none", kind |-> "", data |-> Zeros(0)]

\* the variables of load_gim_image while no file is being loaded
LoadIdle ==
  /\ buf_len = 0
  /\ mem = <<>>
  /\ start_offset = 0 /\ chunk_end = 0 /\ child_offs = 0
  /\ found_chunk = NoChunk
  /\ picture = NoPicture
  /\ visited = <<>>

\* the variables of main while no list of files is being processed
MainIdle == files = <<>> /\ file_no = 0 /\ log = <<>>

\* the variables of process_image before the picture is decoded
ImageIdle ==
  /\ hdr = ZeroHeader
  /\ args = DefaultArgs
  /\ data_len = 0
  /\ pal = NoPalette
  /\ ih = 0 /\ iw = 0 /\ tw = 0 /\ th = 0
  /\ tiled = FALSE
  /\ k = 0
  /\ out = Zeros(0)
  /\ out_inner = Zeros(0)
  /\ file = "none"
  /\ encoded = Zeros(0)
  /\ unchecked = {}
  /\ trace = <<>>

\* ------------------------------------------------- process_image (Spec)
Init ==
  /\ pc = "decode"
  /\ result = Running
  /\ data_seed \in DataSeeds
  /\ ImageIdle
  /\ LoadIdle
  /\ pal_out = NoTable
  /\ MainIdle

Finish(r) == result' = r /\ pc' = "done"

\* multi_frame without the test of the level count
multi_frame_only(frame_count, level_count) == frame_count > 1

\* line 130: more than one frame or more than one level
multi_frame(frame_count, level_count) == frame_count > 1 \/ level_count > 1

\* lines 124-132: decode format and order, reject multi-frame pictures
DecodeHeader ==
  /\ pc = "decode"
  /\ \E f \in Formats, o \in Orders, fc \in Counts, lc \in Counts :
       /\ hdr' = [hdr EXCEPT !.format = f, !.order = o,
                             !.frame_count = fc, !.level_count = lc]
       /\ IF f \notin ImageFormatValues THEN Finish(Err("ImageFormatDecode"))
          ELSE IF o \notin ImageOrderValues THEN Finish(Err("ImageOrderDecode"))
          ELSE IF multi_frame(fc, lc) THEN Finish(Err("UnsupportedMultiFrame"))
          ELSE pc' = "geometry" /\ result' = result
  /\ UNCHANGED <<args, data_len, data_seed, pal, ih, iw, tw, th, tiled, k, trace,
                 out, out_inner, file, encoded, unchecked>>
  /\ UNCHANGED <<loadVars, pal_out, mainVars>>

\* lines 158-161: the aligned dimensions
Geometry ==
  /\ pc = "geometry"
  /\ \E w \in 0..MaxWidth, h \in 0..MaxHeight,
        pa \in 0..MaxAlign, ha \in 0..MaxAlign :
       /\ hdr' = [hdr EXCEPT !.width = w, !.height = h,
                             !.pitch_align = pa, !.height_align = ha]
       /\ IF ha = 0 \/ pa = 0
          THEN Finish(Panic("attempt to divide by zero")) /\ UNCHANGED <<ih, iw>>
          ELSE /\ ih' = aligned(h, ha)
               /\ iw' = aligned(w, pa)
               /\ pc' = "dispatch"
               /\ result' = result
  /\ UNCHANGED <<args, data_len, data_seed, pal, tw, th, tiled, k, trace,
                 out, out_inner, file, encoded, unchecked>>
  /\ UNCHANGED <<loadVars, pal_out, mainVars>>

\* lines 171-180: RGBA8888, reconcile the width with the payload length
ReconcileWidth ==
  /\ pc = "dispatch"
  /\ hdr.format = FMT_RGBA8888
  /\ \E len \in DataLens, p \in DirectPalettes :
       /\ data_len' = len
       /\ pal' = p
       /\ iw' = IF ih * iw * 4 > len THEN new_iw(len, ih) ELSE iw
  /\ pc' = "create"
  /\ UNCHANGED <<result, hdr, args, data_seed, ih, tw, th, tiled, k, trace,
                 out, out_inner, file, encoded, unchecked>>
  /\ UNCHANGED <<loadVars, pal_out, mainVars>>

\* lines 254-257 and 332-335: INDEX8 / INDEX4, normalize the palette
ConvertPalette ==
  /\ pc = "dispatch"
  /\ hdr.format \in {FMT_INDEX8, FMT_INDEX4}
  /\ \E len \in DataLens, p \in Palettes :
       /\ data_len' = len
       /\ pal' = p
       /\ pal_out' = IF p.present
                     THEN convert_palette_for_png(p.format, Payload(p.len, p.seed))
                     ELSE pal_out
       /\ LET c == pal_out' IN
          IF ~p.present THEN Finish(Err("MissingPalette"))
          ELSE IF c.status = "err" THEN Finish(Err(c.kind))
          ELSE IF c.status = "panic" THEN Finish(Panic(c.kind))
          ELSE pc' = "create" /\ result' = result
  /\ UNCHANGED <<hdr, args, data_seed, ih, iw, tw, th, tiled, k, trace,
                 out, out_inner, file, encoded, unchecked>>
  /\ UNCHANGED <<loadVars, mainVars>>

\* lines 419-421: every other format
UnsupportedFormat ==
  /\ pc = "dispatch"
  /\ hdr.format \notin {FMT_RGBA8888, FMT_INDEX8, FMT_INDEX4}
  /\ Finish(Err("UnsupportedImageFormat"))
  /\ UNCHANGED <<hdr, args, data_len, data_seed, pal, ih, iw, tw, th, tiled, k, trace,
                 out, out_inner, file, encoded, unchecked>>
  /\ UNCHANGED <<loadVars, pal_out, mainVars>>

\* lines 183-196, 260-273, 338-351: create the output file, write the PNG
\* header, allocate the pixel buffer and choose the pixel order.  The file
\* system and the encoder may fail; the RGBA8888 path returns the encoder's
\* failure, the indexed paths .expect() it.
CreateOutput ==
  /\ pc = "create"
  /\ \E created \in BOOLEAN, header_ok \in BOOLEAN, a \in
          [tx : 0..MaxTile, ty : 0..MaxTile, linear : BOOLEAN] :
       \* args.linear is read only for PSPImage order, tx and ty only when tiled
       /\ hdr.order # ORDER_PSPImage => a = DefaultArgs
       /\ (hdr.order = ORDER_PSPImage /\ a.linear) => (a.tx = 0 /\ a.ty = 0)
       /\ ~created => header_ok
       /\ IF ~created
          THEN /\ Finish(Err("CreateFailed"))
               /\ UNCHANGED <<args, file, out, out_inner, tiled, tw, th>>
          ELSE IF ~header_ok
          THEN /\ file' = "created"
               /\ Finish(IF hdr.format = FMT_RGBA8888 THEN Err("EncoderHeader")
                         ELSE Panic("Failed to write PNG header"))
               /\ UNCHANGED <<args, out, out_inner, tiled, tw, th>>
          ELSE /\ file' = "created"
               /\ args' = a
               /\ out' = Zeros(iw * ih * 4)
               /\ tiled' = (hdr.order = ORDER_PSPImage /\ ~a.linear)
               /\ IF hdr.order = ORDER_PSPImage /\ ~a.linear
                  THEN /\ tw' = tile_width(a.tx, hdr.format)
                       /\ th' = tile_height(a.ty)
                       /\ out_inner' = out_inner
                  ELSE /\ UNCHANGED <<tw, th>>
                       /\ out_inner' = IF hdr.format = FMT_RGBA8888
                                       THEN Zeros(iw * ih * 4) ELSE out_inner
               /\ pc' = "pixels"
               /\ result' = result
  /\ k' = 0
  /\ trace' = <<>>
  /\ UNCHANGED <<hdr, data_len, data_seed, pal, ih, iw, encoded, unchecked>>
  /\ UNCHANGED <<loadVars, pal_out, mainVars>>

\* number of iterations of the pixel loops of the chosen path
LoopCount ==
  IF tiled
  THEN tiles_y * tiles_x * th * (IF hdr.format = FMT_INDEX4 THEN tw \div 2 ELSE tw)
  ELSE ih * (IF hdr.format = FMT_INDEX4 THEN iw \div 2 ELSE iw)

PixelVarsUnchanged ==
  UNCHANGED <<hdr, args, data_len, data_seed, pal, ih, iw, tw, th, tiled,
              file, encoded, loadVars, pal_out, mainVars>>

\* lines 201-229: one iteration of the RGBA8888 tile loops
TiledRGBA ==
  /\ pc = "pixels" /\ hdr.format = FMT_RGBA8888 /\ tiled /\ k < LoopCount
  /\ LET it == TileIter(k, tw)
         src == tile_src(it) * 4
         dst == tile_dst(it) * 4
     IN IF src + 3 >= data_len
        THEN Finish(OutOfBounds(src + 3, data_len)) /\ UNCHANGED <<out, k, trace>>
        ELSE IF ~InBuf(out, dst + 3)
        THEN Finish(Panic("index out of bounds")) /\ UNCHANGED <<out, k, trace>>
        ELSE /\ out' = Put4(out, dst, image_data[src], image_data[src + 1],
                            image_data[src + 2], image_data[src + 3])
             /\ k' = k + 1
             /\ trace' = Append(trace, [src |-> src, dst |-> dst])
             /\ UNCHANGED <<pc, result>>
  /\ UNCHANGED <<out_inner, unchecked>>
  /\ PixelVarsUnchanged

\* lines 231-248: one iteration of the RGBA8888 linear loops; the buffer
\* written is the one declared at line 232, which shadows that of line 190
LinearRGBA ==
  /\ pc = "pixels" /\ hdr.format = FMT_RGBA8888 /\ ~tiled /\ k < LoopCount
  /\ LET it == LinearIter(k, iw)
         src == (it.y * iw + it.x) * 4
         dst == (it.y * iw + it.x) * 4
     IN IF src + 3 >= data_len
        THEN Finish(OutOfBounds(src + 3, data_len)) /\ UNCHANGED <<out_inner, k, trace>>
        ELSE IF ~InBuf(out_inner, dst + 3)
        THEN Finish(Panic("index out of bounds")) /\ UNCHANGED <<out_inner, k, trace>>
        ELSE /\ out_inner' = Put4(out_inner, dst, image_data[src], image_data[src + 1],
                                  image_data[src + 2], image_data[src + 3])
             /\ k' = k + 1
             /\ trace' = Append(trace, [src |-> src, dst |-> dst])
             /\ UNCHANGED <<pc, result>>
  /\ UNCHANGED <<out, unchecked>>
  /\ PixelVarsUnchanged

\* lines 294-299 and 316-321: look one INDEX8 pixel up and store it
StoreIndex8(src, dst) ==
  LET pal_offset == image_data[src] * 4 IN
  IF ~InBuf(pal_data, pal_offset + 3) \/ ~InBuf(out, dst + 3)
  THEN Finish(Panic("index out of bounds")) /\ UNCHANGED <<out, k, trace>>
  ELSE /\ out' = Put4(out, dst, pal_data[pal_offset + 0], pal_data[pal_offset + 1],
                      pal_data[pal_offset + 2], pal_data[pal_offset + 3])
       /\ k' = k + 1
       /\ trace' = Append(trace, [src |-> src, dst |-> dst])
       /\ UNCHANGED <<pc, result>>

\* lines 275-303: one iteration of the INDEX8 tile loops
TiledINDEX8 ==
  /\ pc = "pixels" /\ hdr.format = FMT_INDEX8 /\ tiled /\ k < LoopCount
  /\ LET it == TileIter(k, tw)
         src == tile_src(it)
         dst == tile_dst(it) * 4
     IN IF src >= data_len
        THEN Finish(OutOfBounds(src, data_len)) /\ UNCHANGED <<out, k, trace>>
        ELSE StoreIndex8(src, dst)
  /\ UNCHANGED <<out_inner, unchecked>>
  /\ PixelVarsUnchanged

\* lines 305-323: one iteration of the INDEX8 linear loops
LinearINDEX8 ==
  /\ pc = "pixels" /\ hdr.format = FMT_INDEX8 /\ ~tiled /\ k < LoopCount
  /\ LET it == LinearIter(k, iw)
         src == it.y * iw + it.x
         dst == (it.y * iw + it.x) * 4
     IN IF src >= data_len
        THEN Finish(OutOfBounds(src, data_len)) /\ UNCHANGED <<out, k, trace>>
        ELSE StoreIndex8(src, dst)
  /\ UNCHANGED <<out_inner, unchecked>>
  /\ PixelVarsUnchanged

\* lines 368-379 and 398-409: unpack one INDEX4 byte into two pixels
pal_index0(b) == b % 16
pal_index1(b) == b \div 16
StoreIndex4(src, dst) ==
  LET i0 == pal_index0(image_data[src])
      i1 == pal_index1(image_data[src])
  IN IF ~InBuf(pal_data, i0 + 3) \/ ~InBuf(pal_data, i1 + 3) \/ ~InBuf(out, dst + 7)
     THEN Finish(Panic("index out of bounds")) /\ UNCHANGED <<out, k, trace>>
     ELSE /\ out' = Put4(Put4(out, dst, pal_data[i0 + 0], pal_data[i0 + 1],
                              pal_data[i0 + 2], pal_data[i0 + 3]),
                         dst + 4, pal_data[i1 + 0], pal_data[i1 + 1],
                         pal_data[i1 + 2], pal_data[i1 + 3])
          /\ k' = k + 1
          /\ trace' = Append(trace, [src |-> src, dst |-> dst])
          /\ UNCHANGED <<pc, result>>

\* lines 354-383: one iteration of the INDEX4 tile loops; the payload is
\* indexed without a length test
TiledINDEX4 ==
  /\ pc = "pixels" /\ hdr.format = FMT_INDEX4 /\ tiled /\ k < LoopCount
  /\ LET it == TileIter(k, tw \div 2)
         src == tile_src(it)
         dst == tile_dst(it) * 8
     IN /\ unchecked' = unchecked \cup {src}
        /\ IF src >= data_len
           THEN Finish(Panic("index out of bounds")) /\ UNCHANGED <<out, k, trace>>
           ELSE StoreIndex4(src, dst)
  /\ UNCHANGED out_inner
  /\ PixelVarsUnchanged

\* lines 385-411: one iteration of the INDEX4 linear loops
LinearINDEX4 ==
  /\ pc = "pixels" /\ hdr.format = FMT_INDEX4 /\ ~tiled /\ k < LoopCount
  /\ LET it == LinearIter(k, iw \div 2)
         row_src == (it.y * iw) \div 2
         row_dest == it.y * iw * 4
         src == row_src + it.x
         dst == row_dest + it.x * 8
     IN IF src >= data_len
        THEN Finish(OutOfBounds(src, data_len)) /\ UNCHANGED <<out, k, trace>>
        ELSE StoreIndex4(src, dst)
  /\ UNCHANGED <<out_inner, unchecked>>
  /\ PixelVarsUnchanged

\* lines 251-252, 326-327, 414-415: hand the buffer of line 190 / 267 / 345
\* to the encoder
WriteImage ==
  /\ pc = "pixels" /\ k = LoopCount
  /\ encoded' = out
  /\ \E written \in BOOLEAN :
       IF written
       THEN file' = "complete" /\ Finish(Ok)
       ELSE file' = file /\ Finish(Err("EncoderData"))
  /\ UNCHANGED <<hdr, args, data_len, data_seed, pal, ih, iw, tw, th, tiled, k, trace,
                 out, out_inner, unchecked>>
  /\ UNCHANGED <<loadVars, pal_out, mainVars>>

Next ==
  \/ DecodeHeader
  \/ Geometry
  \/ ReconcileWidth
  \/ ConvertPalette
  \/ UnsupportedFormat
  \/ CreateOutput
  \/ TiledRGBA
  \/ LinearRGBA
  \/ TiledINDEX8
  \/ LinearINDEX8
  \/ TiledINDEX4
  \/ LinearINDEX4
  \/ WriteImage

Spec == Init /\ [][Next]_vars

\* ---------------------------------------------- load_gim_image (SpecLoad)
\* The buffer is its length and the 32-bit little-endian words the loader
\* has read; a word is drawn when a field in it is first read and keeps its
\* value, so that overlapping structures see the same bytes.  The buffer is
\* taken to start at a 4-byte aligned address.
Signatures == {GIM_FORMAT_SIGNATURE, 0}
Versions == {GIM_FORMAT_VERSION, 0}
Styles == {GIM_FORMAT_STYLE_PSP, 0}
ChunkTypes == {SCEGIM_FILE, SCEGIM_PICTURE, SCEGIM_IMAGE, SCEGIM_PALETTE}
NextOffsets == {0, 16, 24, 32, 80}
ChildOffsets == {16, 32}
DataOffsets == {14, 16}
TableOffsets == {48, 64}
ImagesOffsets == {48}
Totals == {32, 64}
CountWords == {65536 * n : n \in 0..MaxCount}
FrameWords == {0, 131072}
BufLens == {8 * n : n \in 0..MaxBufWords}

Word(i, S) == IF i \in DOMAIN mem THEN {mem[i]} ELSE S
Store(m, i, v) == [j \in (DOMAIN m) \cup {i} |-> IF j = i THEN v ELSE m[j]]
Lo16(w) == w % 65536
Hi16(w) == w \div 65536

\* &bytes[start..end] followed by bytemuck::try_from_bytes / try_cast_slice:
\* the slice panics when it leaves the buffer, the cast fails when the
\* slice is not 4-byte aligned
SliceCast(start, end) ==
  IF start > end \/ end > buf_len THEN "panic"
  ELSE IF start % 4 # 0 THEN "err"
  ELSE "ok"

\* header_error with the style tested before the version
header_error_style_first(signature, version, style) ==
  IF signature # GIM_FORMAT_SIGNATURE THEN "BadSignature"
  ELSE IF style # GIM_FORMAT_STYLE_PSP THEN "UnsupportedStyle"
  ELSE IF version # GIM_FORMAT_VERSION THEN "UnsupportedVersion"
  ELSE ""

\* lines 174-182: the error of the first tag that mismatches, "" if none
header_error(signature, version, style) ==
  IF signature # GIM_FORMAT_SIGNATURE THEN "BadSignature"
  ELSE IF version # GIM_FORMAT_VERSION THEN "UnsupportedVersion"
  ELSE IF style # GIM_FORMAT_STYLE_PSP THEN "UnsupportedStyle"
  ELSE ""

\* supported_child that lets a file-type child through as well
supported_child_or_file(chunk_type) ==
  chunk_type \in {SCEGIM_IMAGE, SCEGIM_PALETTE, SCEGIM_FILE}

\* lines 262-317: the child types the visitor has an arm for
supported_child(chunk_type) == chunk_type \in {SCEGIM_IMAGE, SCEGIM_PALETTE}

\* build_picture content with a palette in place of the image
build_picture_any(p) ==
  IF p.image.present \/ p.palette.present THEN Ok ELSE Err("ImageHeaderNotFound")

\* lines 327-334: the GimPicture, or the error of the missing image header
build_picture(p) == IF p.image.present THEN Ok ELSE Err("ImageHeaderNotFound")

\* payload_range with the two fields taken as offsets into the buffer
payload_range_absolute(header_offset, images, total) ==
  [start |-> images, end |-> total]

\* lines 285-286 and 311-312: the payload's range in the buffer
payload_range(header_offset, images, total) ==
  [start |-> header_offset + images, end |-> header_offset + total]

\* next_child for children taken to be one chunk header apart
next_child_fixed(offs, next_offs) == offs + SizeOfGimChunk

\* line 228: the offset of the next sibling
next_child(offs, next_offs) == offs + next_offs

\* match_child keeping the first child of the wanted type
match_child_first(found, chunk_type, offs) ==
  IF chunk_type = SCEGIM_PICTURE /\ ~found.found
  THEN [found |-> TRUE, offset |-> offs]
  ELSE found

\* lines 208-210: a child of the wanted type replaces the one found so far
match_child(found, chunk_type, offs) ==
  IF chunk_type = SCEGIM_PICTURE
  THEN [found |-> TRUE, offset |-> offs]
  ELSE found

InitLoad ==
  /\ pc = "check_header"
  /\ result = Running
  /\ buf_len \in BufLens
  /\ mem = <<>>
  /\ start_offset = 0 /\ chunk_end = 0 /\ child_offs = 0
  /\ found_chunk = NoChunk
  /\ picture = NoPicture
  /\ visited = <<>>
  /\ data_seed \in DataSeeds
  /\ ImageIdle
  /\ pal_out = NoTable
  /\ MainIdle

LoadOthersUnchanged == UNCHANGED <<imageVars, pal_out, mainVars>>

\* gim_picture_check_file_header, called at line 245
gim_picture_check_file_header ==
  /\ pc = "check_header"
  /\ IF SliceCast(0, SizeOfGimHeader) = "panic"
     THEN Finish(Panic("range end index out of range")) /\ mem' = mem
     ELSE \E signature \in Word(0, Signatures), version \in Word(1, Versions),
             style \in Word(2, Styles) :
            /\ mem' = Store(Store(Store(mem, 0, signature), 1, version), 2, style)
            /\ IF header_error(signature, version, style) # ""
               THEN Finish(Err(header_error(signature, version, style)))
               ELSE pc' = "root" /\ result' = result
  /\ UNCHANGED <<buf_len, start_offset, chunk_end, child_offs, found_chunk,
                 picture, visited>>
  /\ LoadOthersUnchanged

\* lines 247-248 and 201-203: read the root chunk and start the search for
\* the picture chunk among its children
ReadRootChunk ==
  /\ pc = "root"
  /\ LET start == SizeOfGimHeader
         w == start \div 4
     IN IF SliceCast(start, start + SizeOfGimChunk) = "panic"
        THEN /\ Finish(Panic("range end index out of range"))
             /\ UNCHANGED <<mem, start_offset, chunk_end, child_offs>>
        ELSE \E next_offs \in Word(w + 1, NextOffsets),
                child \in Word(w + 2, ChildOffsets) :
               /\ mem' = Store(Store(mem, w + 1, next_offs), w + 2, child)
               /\ start_offset' = start
               /\ chunk_end' = start + next_offs
               /\ child_offs' = start + child
               /\ pc' = "find"
               /\ result' = result
  /\ UNCHANGED <<buf_len, found_chunk, picture, visited>>
  /\ LoadOthersUnchanged

\* lines 204-212: one iteration of the loop of gim_get_child_chunk
FindChildStep ==
  /\ pc = "find"
  /\ child_offs < chunk_end
  /\ Len(visited) < MaxVisits
  /\ LET w == child_offs \div 4
         cast == SliceCast(child_offs, child_offs + SizeOfGimChunk)
     IN IF cast = "panic"
        THEN /\ Finish(Panic("range end index out of range"))
             /\ UNCHANGED <<mem, child_offs, found_chunk, visited>>
        ELSE IF cast = "err"
        THEN /\ Finish(Err("child chunk should be valid"))
             /\ UNCHANGED <<mem, child_offs, found_chunk, visited>>
        ELSE \E type_word \in Word(w, ChunkTypes),
                next_offs \in Word(w + 1, NextOffsets) :
               /\ mem' = Store(Store(mem, w, type_word), w + 1, next_offs)
               /\ found_chunk' = match_child(found_chunk, Lo16(type_word), child_offs)
               /\ child_offs' = child_offs + next_offs
               /\ visited' = Append(visited, child_offs)
               /\ UNCHANGED <<pc, result>>
  /\ UNCHANGED <<buf_len, start_offset, chunk_end, picture>>
  /\ LoadOthersUnchanged

\* lines 213, 258-260, 322-324 and 223-224: the search is over; without a
\* picture chunk the load fails, else the walk of its children starts
FindChildEnd ==
  /\ pc = "find"
  /\ child_offs >= chunk_end
  /\ IF ~found_chunk.found
     THEN /\ Finish(Err("PictureNotFound"))
          /\ UNCHANGED <<mem, start_offset, chunk_end, child_offs, visited>>
     ELSE LET w == found_chunk.offset \div 4 IN
          \E child \in Word(w + 2, ChildOffsets) :
            /\ mem' = Store(mem, w + 2, child)
            /\ start_offset' = found_chunk.offset
            /\ chunk_end' = found_chunk.offset + mem[w + 1]
            /\ child_offs' = found_chunk.offset + child
            /\ visited' = <<>>
            /\ pc' = "process"
            /\ result' = result
  /\ UNCHANGED <<buf_len, found_chunk, picture>>
  /\ LoadOthersUnchanged

\* lines 263-288 and 289-314: the visitor on an image or palette child at
\* child_offset whose chunk words are in m; the new memory, the captured
\* record and the outcome
DecodeRecord(m, child_offset, data_offs) ==
  LET header_offset == child_offset + data_offs
      h == header_offset \div 4
      cast == SliceCast(header_offset, header_offset + SizeOfGimImageHeader)
      Known(i, S) == IF i \in DOMAIN m THEN {m[i]} ELSE S
  IN IF cast = "panic"
     THEN {[mem |-> m, rec |-> NoRecord, outcome |-> Panic("range end index out of range")]}
     ELSE IF cast = "err"
     THEN {[mem |-> m, rec |-> NoRecord, outcome |-> Err("Failed to read GIM image header")]}
     ELSE UNION {
       LET level_count == Hi16(lw)
           frame_count == Hi16(fw)
           offsets_size == (level_count * frame_count) * 4
           offsets_offset == header_offset + offsets
           m1 == Store(Store(Store(m, h + 6, offsets), h + 10, lw), h + 11, fw)
           tcast == SliceCast(offsets_offset, offsets_offset + offsets_size)
       IN IF tcast = "panic"
          THEN {[mem |-> m1, rec |-> NoRecord,
                 outcome |-> Panic("range end index out of range")]}
          ELSE IF tcast = "err"
          THEN {[mem |-> m1, rec |-> NoRecord,
                 outcome |-> Err("Failed to read GIM image offsets")]}
          ELSE {LET images_start == payload_range(header_offset, images, total).start
                    images_end == payload_range(header_offset, images, total).end
                IN [mem |-> Store(Store(m1, h + 7, images), h + 8, total),
                    rec |-> [present |-> TRUE, header_offset |-> header_offset,
                             offsets_offset |-> offsets_offset,
                             offsets_count |-> level_count * frame_count,
                             data_start |-> images_start, data_end |-> images_end],
                    outcome |-> IF images_start > images_end \/ images_end > buf_len
                                THEN Panic("slice index out of range")
                                ELSE Running]
                : images \in Known(h + 7, ImagesOffsets), total \in Known(h + 8, Totals)}
       : offsets \in Known(h + 6, TableOffsets), lw \in Known(h + 10, CountWords),
         fw \in Known(h + 11, FrameWords)}

\* lines 225-229 with the visitor of lines 260-320: one iteration of the
\* loop of gim_process_child_chunks
ProcessChildStep ==
  /\ pc = "process"
  /\ child_offs < chunk_end
  /\ Len(visited) < MaxVisits
  /\ LET w == child_offs \div 4
         cast == SliceCast(child_offs, child_offs + SizeOfGimChunk)
     IN IF cast = "panic"
        THEN /\ Finish(Panic("range end index out of range"))
             /\ UNCHANGED <<mem, child_offs, picture, visited>>
        ELSE IF cast = "err"
        THEN /\ Finish(Err("child chunk should be valid"))
             /\ UNCHANGED <<mem, child_offs, picture, visited>>
        ELSE \E type_word \in Word(w, ChunkTypes),
                next_offs \in Word(w + 1, NextOffsets) :
               LET m0 == Store(Store(mem, w, type_word), w + 1, next_offs)
                   chunk_type == Lo16(type_word)
               IN /\ visited' = Append(visited, child_offs)
                  /\ IF supported_child(chunk_type)
                     THEN \E data_offs \in Word(w + 3, DataOffsets) :
                          \E d \in DecodeRecord(Store(m0, w + 3, data_offs),
                                                child_offs, data_offs) :
                            /\ mem' = d.mem
                            /\ IF d.outcome.status = "running"
                               THEN /\ picture' =
                                         IF chunk_type = SCEGIM_IMAGE
                                         THEN [picture EXCEPT !.image = d.rec]
                                         ELSE [picture EXCEPT !.palette = d.rec]
                                    /\ child_offs' = next_child(child_offs, next_offs)
                                    /\ UNCHANGED <<pc, result>>
                               ELSE /\ Finish(d.outcome)
                                    /\ UNCHANGED <<child_offs, picture>>
                     ELSE /\ mem' = m0
                          /\ Finish(Err("UnsupportedChunk"))
                          /\ UNCHANGED <<child_offs, picture>>
  /\ UNCHANGED <<buf_len, start_offset, chunk_end, found_chunk>>
  /\ LoadOthersUnchanged

\* lines 230 and 327-334: the walk is over; build the GimPicture
ProcessChildEnd ==
  /\ pc = "process"
  /\ child_offs >= chunk_end
  /\ Finish(build_picture(picture))
  /\ UNCHANGED loadVars
  /\ LoadOthersUnchanged

NextLoad ==
  \/ gim_picture_check_file_header
  \/ ReadRootChunk
  \/ FindChildStep
  \/ FindChildEnd
  \/ ProcessChildStep
  \/ ProcessChildEnd

SpecLoad == InitLoad /\ [][NextLoad]_vars

\* -------------------------------------- convert_palette_for_png (SpecPal)
PaletteFormats == ImageFormatValues \cup {11}
PaletteLens == {0, 16, 64, 2 * PaletteEntries - 2, 2 * PaletteEntries,
                4 * PaletteEntries, 4 * PaletteEntries + 4}
PaletteSeeds == {7, 128, EdgeSeed}

InitPal ==
  /\ pc = "palette"
  /\ result = Running
  /\ data_seed \in DataSeeds
  /\ hdr = ZeroHeader
  /\ args = DefaultArgs
  /\ data_len = 0
  /\ pal \in [present : {TRUE}, format : PaletteFormats, len : PaletteLens,
              seed : PaletteSeeds]
  /\ ih = 0 /\ iw = 0 /\ tw = 0 /\ th = 0
  /\ tiled = FALSE
  /\ k = 0
  /\ out = Zeros(0)
  /\ out_inner = Zeros(0)
  /\ file = "none"
  /\ encoded = Zeros(0)
  /\ unchecked = {}
  /\ trace = <<>>
  /\ LoadIdle
  /\ pal_out = NoTable
  /\ MainIdle

\* lines 425-458: one call of convert_palette_for_png
NormalizePalette ==
  /\ pc = "palette"
  /\ pal_out' = convert_palette_for_png(pal.format, palette_data)
  /\ Finish(IF pal_out'.status = "ok" THEN Ok
            ELSE IF pal_out'.status = "err" THEN Err(pal_out'.kind)
            ELSE Panic(pal_out'.kind))
  /\ UNCHANGED <<imageVars, loadVars, mainVars>>

NextPal == NormalizePalette

SpecPal == InitPal /\ [][NextPal]_vars

\* ----------------------------------------------------- main (SpecMain)
\* main over a list of files, each given by the length of its content or
\* NoFile when it cannot be opened.  The files are shorter than the
\* smallest GIM picture, so that every call of process_image ends inside
\* load_gim_image, whose actions above are the steps of the call.
NoFile == -1
BatchBufLens == {0, 32, 48, 64}
FileLists ==
  UNION {[1..n -> BatchBufLens \cup {NoFile}] : n \in 1..MaxFiles}

InitMain ==
  /\ pc = "open"
  /\ result = Running
  /\ files \in FileLists
  /\ file_no = 1
  /\ log = <<>>
  /\ LoadIdle
  /\ data_seed \in DataSeeds
  /\ ImageIdle
  /\ pal_out = NoTable

\* lines 106-121: open the file and read its content into file_data
read_file ==
  /\ pc = "open"
  /\ IF files[file_no] = NoFile
     THEN Finish(Err("Failed to open file")) /\ UNCHANGED buf_len
     ELSE buf_len' = files[file_no] /\ pc' = "check_header" /\ result' = result
  /\ UNCHANGED <<mem, start_offset, chunk_end, child_offs, found_chunk,
                 picture, visited>>
  /\ LoadOthersUnchanged

\* lines 95-101: process_image has returned; report an error and go on to
\* the next file with fresh locals, or leave the loop after the last one
main_loop ==
  /\ pc = "done"
  /\ result.status \in {"ok", "err"}
  /\ log' = Append(log, [file |-> file_no, status |-> result.status])
  /\ IF file_no < Len(files)
     THEN /\ file_no' = file_no + 1
          /\ pc' = "open"
          /\ result' = Running
     ELSE /\ file_no' = file_no
          /\ pc' = "exit"
          /\ result' = result
  /\ buf_len' = 0
  /\ mem' = <<>>
  /\ start_offset' = 0 /\ chunk_end' = 0 /\ child_offs' = 0
  /\ found_chunk' = NoChunk
  /\ picture' = NoPicture
  /\ visited' = <<>>
  /\ UNCHANGED <<files, imageVars, pal_out>>

\* a panic inside process_image is not caught by the match of lines 96-99:
\* it unwinds through main and ends the process
main_unwind ==
  /\ pc = "done"
  /\ result.status = "panic"
  /\ pc' = "aborted"
  /\ UNCHANGED <<result, imageVars, loadVars, pal_out, mainVars>>

NextMain ==
  \/ read_file
  \/ gim_picture_check_file_header
  \/ ReadRootChunk
  \/ FindChildStep
  \/ FindChildEnd
  \/ ProcessChildStep
  \/ ProcessChildEnd
  \/ main_loop
  \/ main_unwind

SpecMain == InitMain /\ [][NextMain]_vars

\* --------------------------------------------- properties of SpecLoad
\* C1: for every input buffer the loader ends with a Picture or a returned
\* error and never panics: a header, table or payload range leaving the
\* buffer yields an error.
C1_NeverPanics == result.status # "panic"

\* the first child offset and the parent's range of the current walk
FirstChild == start_offset + mem[(start_offset \div 4) + 2]
Walking == pc \in {"find", "process"}

\* C2: every child chunk header read during find_child and for_each_child
\* lies wholly in [parent_start + child_offset, parent_start + next_offset),
\* and a parent with child_offset = next_offset has no child read.
C2_ChildReadsInParent ==
  /\ \A i \in 1..Len(visited) :
       FirstChild <= visited[i] /\ visited[i] + SizeOfGimChunk <= chunk_end
  /\ (Walking /\ FirstChild = chunk_end) =>
       (visited = <<>> /\ (pc = "find" => ~found_chunk.found))

\* C3: a child whose next_offset is 0 ends the walk with the InfiniteLoop
\* error instead of being visited again.
C3_ZeroAdvanceIsError ==
  \A i \in 1..Len(visited) :
    mem[(visited[i] \div 4) + 1] = 0 =>
      (pc = "done" /\ result.status = "err" /\ result.kind = "InfiniteLoop")

\* the header fields of the i-th child read in the current walk
ChildType(i) == Lo16(mem[visited[i] \div 4])
ChildNext(i) == mem[(visited[i] \div 4) + 1]
Matches == {i \in 1..Len(visited) : ChildType(i) = SCEGIM_PICTURE}
LastMatch == CHOOSE i \in Matches : \A j \in Matches : j <= i

\* C12: find_child reads the children from parent_start + child_offset,
\* each next one at the previous offset plus its next_offset, all strictly
\* before parent_start + next_offset; its answer is the last child of the
\* wanted type with its absolute offset, and None exactly when no child
\* read has that type.
C12_FindChildLast ==
  pc = "find" =>
    LET n == Len(visited) IN
    /\ chunk_end = start_offset + mem[(start_offset \div 4) + 1]
    /\ n > 0 => visited[1] = FirstChild
    /\ \A i \in 1..(n - 1) : visited[i + 1] = visited[i] + ChildNext(i)
    /\ child_offs = IF n = 0 THEN FirstChild ELSE visited[n] + ChildNext(n)
    /\ \A i \in 1..n : visited[i] < chunk_end
    /\ found_chunk.found <=> Matches # {}
    /\ Matches # {} => found_chunk.offset = visited[LastMatch]

\* the search returns with two children of the wanted type read
C12_Witness ==
  /\ pc = "find" /\ child_offs >= chunk_end
  /\ Cardinality(Matches) >= 2
  /\ found_chunk.found /\ found_chunk.offset = visited[Len(visited)]
  /\ found_chunk.offset # visited[1]

\* the outcome of header validation, once it has run on 16 bytes or more
HeaderErrors == {"BadSignature", "UnsupportedVersion", "UnsupportedStyle"}
HeaderChecked == pc # "check_header" /\ buf_len >= SizeOfGimHeader
HeaderAccepted == ~(pc = "done" /\ result.status = "err" /\ result.kind \in HeaderErrors)

\* C13: header validation accepts exactly the buffers whose first 16 bytes
\* carry the fixed signature, version and style; a wrong signature fails
\* with BadSignature, else a wrong version with UnsupportedVersion, else a
\* wrong style with UnsupportedStyle; the option field is never read.
C13_HeaderTriple ==
  HeaderChecked =>
    LET signature == mem[0]
        version == mem[1]
        style == mem[2]
    IN /\ HeaderAccepted <=> /\ signature = GIM_FORMAT_SIGNATURE
                              /\ version = GIM_FORMAT_VERSION
                              /\ style = GIM_FORMAT_STYLE_PSP
       /\ signature # GIM_FORMAT_SIGNATURE => result = Err("BadSignature")
       /\ (signature = GIM_FORMAT_SIGNATURE /\ version # GIM_FORMAT_VERSION) =>
            result = Err("UnsupportedVersion")
       /\ (signature = GIM_FORMAT_SIGNATURE /\ version = GIM_FORMAT_VERSION
             /\ style # GIM_FORMAT_STYLE_PSP) => result = Err("UnsupportedStyle")
       /\ 3 \notin DOMAIN mem

\* a header whose version and style are both wrong fails on the version
C13_Witness ==
  /\ HeaderChecked /\ result = Err("UnsupportedVersion")
  /\ mem[0] = GIM_FORMAT_SIGNATURE /\ mem[2] # GIM_FORMAT_STYLE_PSP

\* the current walk is that of the children of the selected picture chunk
InPicture == found_chunk.found /\ start_offset = found_chunk.offset

\* C15: a child of the selected picture chunk whose type is neither image
\* nor palette ends the load with UnsupportedChunk wherever it sits among
\* its siblings: it is the last child read and no Picture is returned.
C15_OtherChildIsError ==
  InPicture =>
    \A i \in 1..Len(visited) :
      ChildType(i) \notin {SCEGIM_IMAGE, SCEGIM_PALETTE} =>
        /\ pc = "done" /\ result = Err("UnsupportedChunk")
        /\ i = Len(visited)

\* an unsupported child read after a decoded image child
C15_Witness ==
  /\ InPicture /\ Len(visited) >= 2 /\ picture.image.present
  /\ ChildType(Len(visited)) \notin {SCEGIM_IMAGE, SCEGIM_PALETTE}
  /\ result = Err("UnsupportedChunk")

\* the root chunk has been read and the loop of the current walk has ended
RootRead == (SizeOfGimHeader \div 4) + 1 \in DOMAIN mem
WalkOver == pc = "done" /\ RootRead /\ child_offs >= chunk_end
ImageChildren == {i \in 1..Len(visited) : ChildType(i) = SCEGIM_IMAGE}

\* C16: the load fails with PictureNotFound when the root chunk has no
\* child of picture type, and with ImageHeaderNotFound when the selected
\* picture chunk has no image child (no child at all, or palettes only);
\* a Picture is returned only when an image child was decoded.
C16_NotFoundErrors ==
  /\ pc = "process" => found_chunk.found
  /\ (WalkOver /\ ~InPicture) =>
       (Matches = {} /\ result = Err("PictureNotFound"))
  /\ (WalkOver /\ InPicture) =>
       /\ picture.image.present <=> ImageChildren # {}
       /\ result = IF ImageChildren = {} THEN Err("ImageHeaderNotFound") ELSE Ok
  /\ result.kind = "PictureNotFound" => (WalkOver /\ ~InPicture)
  /\ result.kind = "ImageHeaderNotFound" => (WalkOver /\ InPicture)
  /\ result.status = "ok" => (WalkOver /\ InPicture /\ picture.image.present)

\* a picture chunk with a palette child and no image child
C16_Witness ==
  /\ WalkOver /\ InPicture /\ result = Err("ImageHeaderNotFound")
  /\ Len(visited) >= 1 /\ picture.palette.present

\* C17: each image or palette child at offset c with data offset d is
\* captured with its header at h = c + d, its offset table as
\* level_count*frame_count u32 values from h + offsets, and its payload as
\* the bytes [h + images, h + total) of the buffer itself, of length
\* total - images; a capture replaces the record of its own kind only.
C17_RecordLayout ==
  [][picture' # picture =>
       LET c == child_offs
           kind == Lo16(mem'[c \div 4])
           d == mem'[(c \div 4) + 3]
           h == c + d
           hw == h \div 4
           rec == IF kind = SCEGIM_IMAGE THEN picture'.image ELSE picture'.palette
       IN /\ kind \in {SCEGIM_IMAGE, SCEGIM_PALETTE}
          /\ kind = SCEGIM_IMAGE => picture'.palette = picture.palette
          /\ kind = SCEGIM_PALETTE => picture'.image = picture.image
          /\ rec.present /\ rec.header_offset = h
          /\ h + SizeOfGimImageHeader <= buf_len
          /\ rec.offsets_offset = h + mem'[hw + 6]
          /\ rec.offsets_count = Hi16(mem'[hw + 10]) * Hi16(mem'[hw + 11])
          /\ rec.offsets_offset + 4 * rec.offsets_count <= buf_len
          /\ rec.data_start = h + mem'[hw + 7]
          /\ rec.data_end = h + mem'[hw + 8]
          /\ rec.data_end - rec.data_start = mem'[hw + 8] - mem'[hw + 7]
          /\ rec.data_start <= rec.data_end /\ rec.data_end <= buf_len]_vars

\* an image with a non-empty payload and a palette have been captured
C17_Witness ==
  /\ picture.image.present /\ picture.palette.present
  /\ picture.image.data_end > picture.image.data_start

\* the errors the visitor of load_gim_image returns
VisitorErrors == {"UnsupportedChunk", "Failed to read GIM image header",
                  "Failed to read GIM image offsets"}
VisitorFailed == result.status = "err" /\ result.kind \in VisitorErrors

\* C18: for_each_child calls the visitor on the children in sibling order,
\* whatever their type (visited holds the offsets the visitor was called
\* with): the first at parent_start + child_offset, each next one at the
\* previous offset plus its next_offset, none skipped; when the visitor
\* fails on a child the walk returns that error at once, the failing child
\* being the last one visited.
C18_VisitorOrder ==
  InPicture =>
    LET n == Len(visited) IN
    /\ n > 0 => visited[1] = FirstChild
    /\ \A i \in 1..(n - 1) : visited[i + 1] = visited[i] + ChildNext(i)
    /\ \A i \in 1..n : visited[i] < chunk_end
    /\ pc = "process" =>
         child_offs = IF n = 0 THEN FirstChild ELSE visited[n] + ChildNext(n)
    /\ VisitorFailed => (pc = "done" /\ n > 0 /\ child_offs = visited[n])
    /\ (result.status = "err" /\ n > 0 /\ child_offs = visited[n] /\ ChildNext(n) # 0)
         => VisitorFailed

\* the visitor fails on the second child while a third sibling remains
C18_Witness ==
  /\ InPicture /\ Len(visited) = 2
  /\ result = Err("Failed to read GIM image header")
  /\ visited[2] + ChildNext(2) < chunk_end

\* ------------------------------------------------ properties of Spec
IOFailures == {"CreateFailed", "EncoderHeader", "EncoderData",
               "Failed to write PNG header"}
Failed == result.status \in {"err", "panic"}
Succeeded == pc = "done" /\ result.status = "ok"

\* C4: in every transcoding path each payload byte is read only after its
\* offset was tested against the payload length, and an offset beyond the
\* payload ends the conversion with PixelDataOutOfBounds carrying that
\* offset and the payload length.
C4_EveryReadChecked ==
  /\ unchecked = {}
  /\ result.kind = "PixelDataOutOfBounds" =>
       (result.offset >= result.data_len /\ result.data_len = data_len)

\* C5: output is all-or-nothing: when the conversion of the file fails (the
\* file system and the encoder working), no output file has been created.
C5_NoOutputOnFailure ==
  (Failed /\ result.kind \notin IOFailures) => file = "none"

\* C6: on the linear RGBA8888 path the buffer handed to the encoder holds,
\* for every pixel (x, y), the 4 payload bytes at offset (y*iw + x)*4.
C6_LinearCopy ==
  (Succeeded /\ hdr.format = FMT_RGBA8888 /\ ~tiled /\ data_len >= iw * ih * 4) =>
    \A y \in 0..(ih - 1), x \in 0..(iw - 1), c \in 0..3 :
      encoded[(y * iw + x) * 4 + c] = image_data[(y * iw + x) * 4 + c]

\* The tile-to-linear mapping as section 4.4 states it: the output pixel of
\* payload pixel p.
DetiledPixel(p) ==
  LET t == p \div (tw * th)
      r == p % (tw * th)
      nx == iw \div tw
  IN ((t \div nx) * th + (r \div tw)) * iw + (t % nx) * tw + (r % tw)
Retile(buf) == [j \in 0..(iw * ih * 4 - 1) |-> buf[DetiledPixel(j \div 4) * 4 + (j % 4)]]
TimesWritten(q) == Cardinality({i \in 1..Len(trace) : trace[i].dst = q * 4})

TiledEvenDone ==
  /\ Succeeded /\ hdr.format = FMT_RGBA8888 /\ tiled
  /\ iw % tw = 0 /\ ih % th = 0

DetileMapping ==
  /\ \A p \in 0..(iw * ih - 1), c \in 0..3 :
       encoded[DetiledPixel(p) * 4 + c] = image_data[p * 4 + c]
  /\ \A q \in 0..(iw * ih - 1) : TimesWritten(q) = 1

\* C7 as stated: with a tile size dividing the effective dimensions,
\* detiling maps payload pixel t*tw*th + y*tw + x to output pixel
\* (tx*tw + x, ty*th + y), writes every output pixel exactly once, and
\* re-tiling the output reproduces the payload byte for byte.
C7_RetileIsPayload ==
  (TiledEvenDone /\ Len(trace) > 0) =>
    (DetileMapping /\ Retile(encoded) = image_data)

\* C7 amended: as above, but re-tiling the output reproduces the first
\* iw*ih*4 bytes of the payload; payload bytes beyond them reach no pixel.
C7_RetileIsPayloadPrefix ==
  TiledEvenDone =>
    /\ DetileMapping
    /\ iw * ih * 4 <= data_len
    /\ \A j \in 0..(iw * ih * 4 - 1) : Retile(encoded)[j] = image_data[j]
    /\ \A i \in 1..Len(trace) : trace[i].src < iw * ih * 4

C7_Witness ==
  /\ TiledEvenDone
  /\ iw \div tw > 1 /\ th > 1
  /\ \E i \in 1..Len(trace) : trace[i].src # trace[i].dst

\* a loaded picture with more than one frame or level, past lines 124-132
MultiFramePicture ==
  pc # "decode" /\ (hdr.frame_count > 1 \/ hdr.level_count > 1)
NothingProduced == file = "none" /\ trace = <<>> /\ k = 0 /\ encoded = Zeros(0)

\* C14 as stated: every picture with frame_count > 1 or level_count > 1 is
\* rejected with UnsupportedMultiFrame, before any pixel is transcoded and
\* before the output file is created.
C14_MultiFrameRejected ==
  MultiFramePicture =>
    (pc = "done" /\ result = Err("UnsupportedMultiFrame") /\ NothingProduced)

\* C14 amended: such a picture is always rejected before any pixel is
\* transcoded and before the output file is created; the error is
\* UnsupportedMultiFrame when its format and order values decode, and the
\* decode error of the format, else of the order, when they do not.
C14_MultiFrameRejectedAfterDecode ==
  MultiFramePicture =>
    /\ pc = "done" /\ NothingProduced
    /\ result = IF hdr.format \notin ImageFormatValues THEN Err("ImageFormatDecode")
                ELSE IF hdr.order \notin ImageOrderValues THEN Err("ImageOrderDecode")
                ELSE Err("UnsupportedMultiFrame")

C14_Witness ==
  /\ MultiFramePicture /\ hdr.frame_count = 1
  /\ result = Err("UnsupportedMultiFrame")

\* the picture carries a type tag the transcoder has no case for
UnsupportedTags ==
  \/ hdr.format \notin ImageFormatValues
  \/ hdr.order \notin ImageOrderValues
  \/ hdr.format \notin {FMT_RGBA8888, FMT_INDEX8, FMT_INDEX4}
  \/ (pal.present /\ pal.format \notin {FMT_RGBA8888, FMT_RGBA5551})

\* C20: a picture whose format or order value is outside its enumeration,
\* whose format is not RGBA8888, INDEX8 or INDEX4, or whose palette format
\* is not RGBA8888 or RGBA5551 ends its conversion with a returned error,
\* and no output file is ever created for it.
C20_UnknownTagsAreErrors ==
  (pc # "decode" /\ UnsupportedTags) =>
    /\ file = "none"
    /\ pc = "done" => result.status = "err"

\* the pixel loops have been entered: the output file and the PNG header
\* were written and the pixel order was chosen
HeaderFailures == {"CreateFailed", "EncoderHeader", "Failed to write PNG header"}
Transcoding ==
  \/ pc = "pixels"
  \/ (pc = "done" /\ file # "none" /\ result.kind \notin HeaderFailures)

\* the offsets of iteration n (from 0) of the linear loops of each format
LinearSrc(n) ==
  IF hdr.format = FMT_RGBA8888 THEN 4 * n
  ELSE IF hdr.format = FMT_INDEX8 THEN n
  ELSE (((n \div (iw \div 2)) * iw) \div 2) + (n % (iw \div 2))
LinearDst(n) ==
  IF hdr.format = FMT_INDEX4
  THEN (n \div (iw \div 2)) * iw * 4 + (n % (iw \div 2)) * 8
  ELSE 4 * n

\* C21: detiling is applied exactly when the order is the tiled one and
\* the linear override is off; with the override on a tiled-order picture
\* runs the linear loops; when detiling is applied the tile width is the
\* override if > 0, else 4 for RGBA8888 and 16 for the indexed formats, and
\* the tile height is the override if > 0, else 8.
C21_TileSelection ==
  Transcoding =>
    /\ tiled <=> (hdr.order = ORDER_PSPImage /\ ~args.linear)
    /\ tiled =>
         /\ tw = IF args.tx > 0 THEN args.tx
                 ELSE IF hdr.format = FMT_RGBA8888 THEN 4 ELSE 16
         /\ th = IF args.ty > 0 THEN args.ty ELSE 8
    /\ ~tiled =>
         \A i \in 1..Len(trace) :
           trace[i].src = LinearSrc(i - 1) /\ trace[i].dst = LinearDst(i - 1)

\* a tiled-order picture converted with the linear override on
C21_Witness ==
  /\ Succeeded /\ hdr.order = ORDER_PSPImage /\ args.linear
  /\ Len(trace) > 1

\* the part of the picture that whole tiles cover
CoveredWidth == (iw \div tw) * tw
CoveredHeight == (ih \div th) * th
TiledDirectOrIndex8 ==
  Transcoding /\ tiled /\ hdr.format \in {FMT_RGBA8888, FMT_INDEX8}

\* C22: in tiled RGBA8888 and INDEX8 transcoding with any tile size >= 1,
\* dividing the picture or not, every write lies inside the iw*ih*4 bytes
\* of the output buffer and no output pixel is written twice; the pixels
\* right of the last whole tile column or below the last whole tile row
\* are never written and stay zero; and the conversion succeeds whenever
\* the payload and the palette table are long enough and the encoder
\* writes.
C22_PartialTiles ==
  TiledDirectOrIndex8 =>
    /\ tw >= 1 /\ th >= 1
    /\ \A i \in 1..Len(trace) :
         /\ trace[i].dst % 4 = 0
         /\ 0 <= trace[i].dst /\ trace[i].dst + 3 < iw * ih * 4
         /\ (trace[i].dst \div 4) % iw < CoveredWidth
         /\ (trace[i].dst \div 4) \div iw < CoveredHeight
         /\ \A j \in 1..Len(trace) : trace[i].dst = trace[j].dst => i = j
    /\ \A y \in 0..(ih - 1), x \in 0..(iw - 1), c \in 0..3 :
         (x >= CoveredWidth \/ y >= CoveredHeight) =>
           /\ out[(y * iw + x) * 4 + c] = 0
           /\ Succeeded => encoded[(y * iw + x) * 4 + c] = 0
    /\ (pc = "done" /\ result.kind # "EncoderData"
          /\ (hdr.format = FMT_INDEX8 =>
                (data_len >= iw * ih /\ InBuf(pal_data, 4 * PaletteEntries - 1))))
         => result = Ok

\* a conversion that succeeds with a tile height that does not divide the
\* picture: some pixels are written, the last row is not
C22_Witness ==
  /\ TiledDirectOrIndex8 /\ Succeeded
  /\ ih % th # 0 /\ CoveredHeight > 0 /\ CoveredWidth > 0
  /\ Len(trace) > 0

\* C8: in linear INDEX4 transcoding the payload byte b at byte column x of
\* row y yields output pixel (2x, y) = palette entry b & 0x0F (table offset
\* 4*(b & 0x0F)) and output pixel (2x+1, y) = palette entry b >> 4.
C8_Index4Unpack ==
  (Succeeded /\ hdr.format = FMT_INDEX4 /\ ~tiled
     /\ BufLen(pal_data) = 4 * PaletteEntries) =>
    \A y \in 0..(ih - 1), x \in 0..((iw \div 2) - 1), c \in 0..3 :
      LET b == image_data[(y * iw) \div 2 + x] IN
      /\ encoded[(y * iw + 2 * x) * 4 + c] = pal_data[4 * (b % 16) + c]
      /\ encoded[(y * iw + 2 * x + 1) * 4 + c] = pal_data[4 * (b \div 16) + c]

\* C9: for RGBA8888 with alignments >= 1 the effective height is
\* ceil(height/height_align)*height_align, the effective width is
\* ceil(width/pitch_align)*pitch_align unless that area exceeds the payload,
\* then floor(payload_len/4/height); afterwards width*height*4 fits the
\* payload and no pixel read lies outside it.
CeilTimes(n, a) == ((n + a - 1) \div a) * a
C9_GeometryFits ==
  (hdr.format = FMT_RGBA8888 /\ hdr.pitch_align >= 1 /\ hdr.height_align >= 1) =>
    LET eh == CeilTimes(hdr.height, hdr.height_align)
        ew == CeilTimes(hdr.width, hdr.pitch_align)
    IN /\ pc = "dispatch" => (ih = eh /\ iw = ew)
       /\ pc \in {"create", "pixels", "done"} =>
            /\ ih = eh
            /\ iw = IF ew * eh * 4 > data_len THEN data_len \div (4 * eh) ELSE ew
            /\ iw * ih * 4 <= data_len
            /\ \A i \in 1..Len(trace) : trace[i].src + 3 < data_len
            /\ result.kind \notin {"PixelDataOutOfBounds", "index out of bounds"}

C9_Witness ==
  /\ Succeeded /\ hdr.format = FMT_RGBA8888
  /\ CeilTimes(hdr.width, hdr.pitch_align) * ih * 4 > data_len
  /\ hdr.width < CeilTimes(hdr.width, hdr.pitch_align)
  /\ Len(trace) > 0

\* ----------------------------------------------- properties of SpecPal
\* C10: whenever palette normalization succeeds the table is exactly 256
\* RGBA8888 entries (1024 bytes) whatever the payload length, and for an
\* RGBA8888 palette its bytes are the payload bytes.
C10_TableHas256Entries ==
  pal_out.status = "ok" =>
    /\ BufLen(pal_out.data) = 4 * PaletteEntries
    /\ pal.format = FMT_RGBA8888 => pal_out.data = palette_data

\* C11: an RGBA5551 palette is expanded entry by entry: the 16-bit
\* little-endian value p of entry i gives r = (p & 0x1F) << 3,
\* g = ((p >> 5) & 0x1F) << 3, b = ((p >> 10) & 0x1F) << 3 and a = 255 when
\* bit 15 is set, else 0; 0x8000 gives (0,0,0,255), 0x0000 gives (0,0,0,0),
\* and every component fits in 8 bits.
Entry5551(i) == palette_data[2 * i] + 256 * palette_data[2 * i + 1]
TableEntry(i) == <<pal_out.data[4 * i], pal_out.data[4 * i + 1],
                   pal_out.data[4 * i + 2], pal_out.data[4 * i + 3]>>
C11_Expand5551 ==
  (pal_out.status = "ok" /\ pal.format = FMT_RGBA5551) =>
    \A i \in 0..(PaletteEntries - 1) :
      LET p == Entry5551(i) IN
      /\ TableEntry(i) = <<(p % 32) * 8, ((p \div 32) % 32) * 8,
                           ((p \div 1024) % 32) * 8,
                           IF p >= 32768 THEN 255 ELSE 0>>
      /\ \A c \in 1..4 : TableEntry(i)[c] \in 0..255
      /\ p = 32768 => TableEntry(i) = <<0, 0, 0, 255>>
      /\ p = 0 => TableEntry(i) = <<0, 0, 0, 0>>

C11_Witness ==
  /\ pc = "done" /\ pal_out.status = "ok" /\ pal.format = FMT_RGBA5551
  /\ Entry5551(0) = 0 /\ Entry5551(1) = 32768
  /\ Entry5551(4) % 32 # (Entry5551(4) \div 1024) % 32

\* ---------------------------------------------- properties of SpecMain
\* C19: the files are processed one at a time in the order given, each
\* exactly once; the failure of a file does not prevent the processing of
\* the files after it, so the run ends only when the last file has been
\* reached; each call starts from fresh state.
C19_EveryFileProcessed ==
  /\ \A i \in 1..Len(log) : log[i].file = i
  /\ pc \notin {"exit", "aborted"} => file_no = Len(log) + 1
  /\ pc = "open" => (buf_len = 0 /\ mem = <<>> /\ picture = NoPicture)
  /\ pc \in {"exit", "aborted"} => file_no = Len(files)

====

